---- MODULE Spec2Model ----
(***************************************************************************)
(* uniqopy (src/main.rs): copy one file to a new file whose name embeds    *)
(* the MD5 of its content and a local timestamp, keeping the extension.    *)
(*                                                                         *)
(* Strings and byte strings are sequences of one-byte tokens.  "a" is an   *)
(* ordinary ASCII letter, "." the extension separator, "/" the directory   *)
(* separator, "BAD" a byte that is not valid UTF-8 (0xFF), and "EF", "BF", *)
(* "BD" the three bytes of U+FFFD, the replacement character.  File        *)
(* content is a sequence of small numbers.                                 *)
(***************************************************************************)
EXTENDS Integers, Sequences, FiniteSets, TLC

VARIABLES
    args,         \* the operands of the command line (argv without argv[0])
    pc,           \* position of main
    exitStatus,   \* process exit status, NoStatus while running
    srcKind,      \* what the operand path resolves to: absent, dir, special, file
    srcData,      \* bytes of the file the operand resolves to
    dstState,     \* what the destination name resolves to: absent, dir, file, link
    dstData,      \* bytes of the file at the destination name (when not a link)
    pos,          \* read offset of md5_of_file's reader
    buffer,       \* md5_of_file's read buffer
    context,      \* md5::Context
    fed,          \* history: every byte handed to context.consume, in order
    reads,        \* history: the sizes the successive reads returned
    md5,          \* main's md5 (hex string), <<>> before hashing ends
    clock,        \* the local wall clock, in seconds
    ticks,        \* how often the clock advanced during the invocation
    ts,           \* main's ts, <<>> before timestamp() ran
    destination,  \* main's destination, <<>> before new_name returned
    reported,     \* the byte counts printed on stdout
    sys,          \* history: the file system calls the process made
    extAt,        \* history: positions of main at which another process wrote the source
    start,        \* history: the state at process start
    hashEndClock, \* history: the clock when md5_of_file returned
    fnIn,         \* the arguments of a direct call of new_name
    fnOut         \* its result

vars == <<args, pc, exitStatus, srcKind, srcData, dstState, dstData, pos, buffer,
          context, fed, reads, md5, clock, ticks, ts, destination, reported, sys,
          extAt, start, hashEndClock, fnIn, fnOut>>

----------------------------------------------------------------------------
(* Bounds of the model.                                                    *)

\* longest file name handed to new_name directly, in bytes
MaxNameLen == 3
\* longest file content, in bytes
MaxFileLen == 2
\* size of md5_of_file's buffer (10 MiB in the program)
BufSize == 2
\* width of the digest in bytes (16 in the program)
DigestBytes == 1
\* how often the clock may advance during one invocation
MaxTicks == 1
\* how often another process may rewrite the source during one invocation
MaxExtMods == 1

NoStatus == "none"

----------------------------------------------------------------------------
(* Sequences.                                                              *)

SeqsUpTo(S, n) == UNION {[1..k -> S] : k \in 0..n}

RECURSIVE Contains(_, _)
Contains(s, c) ==
    IF s = <<>> THEN FALSE
    ELSE IF Head(s) = c THEN TRUE ELSE Contains(Tail(s), c)

\* index of the last occurrence of c in s, 0 when there is none
RECURSIVE LastIndexOf(_, _)
LastIndexOf(s, c) ==
    IF s = <<>> THEN 0
    ELSE IF s[Len(s)] = c THEN Len(s)
    ELSE LastIndexOf(SubSeq(s, 1, Len(s) - 1), c)

\* s split at every occurrence of c, empty pieces included
RECURSIVE Split(_, _)
Split(s, c) ==
    LET i == LastIndexOf(s, c) IN
    IF i = 0 THEN <<s>>
    ELSE Append(Split(SubSeq(s, 1, i - 1), c), SubSeq(s, i + 1, Len(s)))

----------------------------------------------------------------------------
(* Paths (std::path::Path as new_name uses it).                            *)

PathBytes == {"a", ".", "/", "BAD"}

\* OsStr::to_string_lossy: every byte that is not valid UTF-8 becomes U+FFFD
RECURSIVE to_string_lossy(_)
to_string_lossy(s) ==
    IF s = <<>> THEN <<>>
    ELSE (IF Head(s) = "BAD" THEN <<"EF", "BF", "BD">> ELSE <<Head(s)>>)
         \o to_string_lossy(Tail(s))

\* String::from_utf8 succeeds
ValidUnicode(s) == ~Contains(s, "BAD")

\* Path::components: empty pieces and "." pieces are dropped, except a leading "."
Components(p) ==
    LET segs == Split(p, "/")
        keep(i) == /\ segs[i] # <<>>
                   /\ (segs[i] = <<".">> => i = 1)
    IN  SelectSeq([i \in 1..Len(segs) |-> [seg |-> segs[i], ok |-> keep(i)]],
                  LAMBDA r : r.ok)

\* Path::file_name: the last component when it is a normal one; <<>> stands for None
file_name(p) ==
    LET cs == Components(p) IN
    IF cs = <<>> THEN <<>>
    ELSE IF cs[Len(cs)].seg \in {<<".">>, <<".", ".">>} THEN <<>>
    ELSE cs[Len(cs)].seg

\* rsplit_file_at_dot: (before, after) of the last ".", where a name whose only
\* "." is its first byte, and "..", have no "after"
HasExtension(name) ==
    /\ name # <<".", ".">>
    /\ LastIndexOf(name, ".") > 1

\* Path::file_stem of a path whose file_name is name
file_stem(name) ==
    IF HasExtension(name) THEN SubSeq(name, 1, LastIndexOf(name, ".") - 1) ELSE name

\* Path::extension of a path whose file_name is name (only used when HasExtension)
extension(name) ==
    SubSeq(name, LastIndexOf(name, ".") + 1, Len(name))

\* What the operating system can resolve to something other than a directory: the
\* path must end in a normal name (no trailing "/", not "." and not "..")
CanNameFile(p) ==
    LET segs == Split(p, "/") IN
    segs[Len(segs)] \notin {<<>>, <<".">>, <<".", ".">>}

\* The path names an entry of the working directory itself
InCwd(p) ==
    LET cs == Components(p) IN
    \/ Len(cs) = 1 /\ cs[1].seg # <<".">>
    \/ Len(cs) = 2 /\ cs[1].seg = <<".">>

----------------------------------------------------------------------------
(* new_name (src/main.rs:60-76).  isFile is the answer of fpath.is_file().  *)

ErrNotFile == "uniqopy only works on files"
ErrNoName == "File has no name?"

Ok(v) == [ok |-> TRUE, val |-> v]
Err(e) == [ok |-> FALSE, val |-> e]

new_name(fname, isFile, t, h) ==
    IF ~isFile THEN Err(ErrNotFile)
    ELSE IF file_name(fname) = <<>> THEN Err(ErrNoName)
    ELSE LET nm == file_name(fname)
             stem == to_string_lossy(file_stem(nm))
         IN  IF HasExtension(nm)
             THEN Ok(stem \o <<".">> \o t \o <<".">> \o h \o <<".">>
                          \o to_string_lossy(extension(nm)))
             ELSE Ok(stem \o <<".">> \o t \o <<".">> \o h)

----------------------------------------------------------------------------
(* The digest (md5::Context, src/main.rs:32, 40, 43-44), scaled down to     *)
(* DigestBytes bytes: an incremental, order-sensitive fold over the bytes   *)
(* consumed, closed with their count.                                       *)

RECURSIVE Pow(_, _)
Pow(b, e) == IF e = 0 THEN 1 ELSE b * Pow(b, e - 1)

HashMod == Pow(256, DigestBytes)

ContextNew == [h |-> 7, n |-> 0]

RECURSIVE consume(_, _)
consume(ctx, chunk) ==
    IF chunk = <<>> THEN ctx
    ELSE consume([h |-> (ctx.h * 31 + Head(chunk)) % HashMod, n |-> ctx.n + 1],
                 Tail(chunk))

compute(ctx) == (ctx.h * 31 + ctx.n) % HashMod

HexDigits == <<"0", "1", "2", "3", "4", "5", "6", "7", "8", "9",
               "a", "b", "c", "d", "e", "f">>

\* format!("{:x}", digest): two lowercase hex digits per digest byte
RECURSIVE LowerHexN(_, _)
LowerHexN(d, width) ==
    IF width = 0 THEN <<>>
    ELSE Append(LowerHexN(d \div 16, width - 1), HexDigits[(d % 16) + 1])

LowerHex(d) == LowerHexN(d, 2 * DigestBytes)

\* the fingerprint of a whole byte sequence hashed in one piece
Fingerprint(bytes) == LowerHex(compute(consume(ContextNew, bytes)))

\* A plausible slip: the whole buffer is consumed, not only the bytes just read.
ChunkWholeBuffer(buf, bytes_read) == buf

\* &buffer[..bytes_read] (src/main.rs:40)
Chunk(buf, bytes_read) == SubSeq(buf, 1, bytes_read)

----------------------------------------------------------------------------
(* timestamp (src/main.rs:48-52): Local::now() formatted with "%F-%X",      *)
(* YYYY-MM-DD-HH:MM:SS.  The clock counts the seconds of one day.           *)

Pad2(n) == <<HexDigits[(n \div 10) + 1], HexDigits[(n % 10) + 1]>>

FormatTime(c) ==
    <<"2", "0", "2", "2", "-", "0", "2", "-", "0", "2", "-">>
    \o Pad2(c \div 3600) \o <<":">> \o Pad2((c \div 60) % 60) \o <<":">> \o Pad2(c % 60)

\* A plausible slip: the time of the process start is used.
NowAtStart == start.clock

\* Local::now() (src/main.rs:50)
Now == clock

timestamp == FormatTime(Now)

----------------------------------------------------------------------------
(* The state at process start.                                              *)

Bytes == {1, 2}
Contents == SeqsUpTo(Bytes, MaxFileLen)
\* what another process leaves in the source when it rewrites it
Rewrites == {<<>>, <<2>>, <<2, 1>>}
\* what a file already at the destination name holds
OldContents == {<<>>, <<2>>}

\* operands: a plain name, a name with an extension, a name with a leading dot,
\* a path into another directory, a path with a trailing separator, the working
\* directory, and a name that is not valid Unicode
Operands ==
    {<<"a">>, <<"a", ".", "a">>, <<".", "a">>, <<"/", "a">>, <<"a", "/">>, <<".">>,
     <<"BAD">>}

\* argv: no operand, one operand, or two
ArgVectors ==
    {<<>>} \cup {<<p>> : p \in Operands}
           \cup {<<p, q>> : p \in {<<"a">>}, q \in {<<"a">>, <<"BAD">>}}

\* what a path can resolve to
KindsOf(p) ==
    IF CanNameFile(p) THEN {"absent", "dir", "special", "file"}
    ELSE IF file_name(p) = <<>> THEN {"dir"}
    ELSE {"absent", "dir"}

\* The file system at process start.  The destination name (known only once the
\* name is built) is absent, a directory, a file of its own, or, when the source
\* is a file, a hard or symbolic link to the source's file.
Init ==
    /\ args \in ArgVectors
    /\ pc = "main"
    /\ exitStatus = NoStatus
    /\ srcKind \in (IF Len(args) = 1 /\ ValidUnicode(args[1])
                    THEN KindsOf(args[1]) ELSE {"absent"})
    /\ srcData \in (IF srcKind = "file" THEN Contents
                    ELSE IF srcKind = "special" THEN SeqsUpTo(Bytes, 1)
                    ELSE {<<>>})
    /\ dstState \in (IF srcKind = "file" THEN {"absent", "dir", "file", "link"}
                     ELSE {"absent", "file"})
    /\ dstData \in (IF dstState = "file" THEN OldContents ELSE {<<>>})
    /\ pos = 0
    /\ buffer = [i \in 1..BufSize |-> 0]
    /\ context = ContextNew
    /\ fed = <<>>
    /\ reads = <<>>
    /\ md5 = <<>>
    /\ clock = 59
    /\ ticks = 0
    /\ ts = <<>>
    /\ destination = <<>>
    /\ reported = <<>>
    /\ sys = <<>>
    /\ extAt = <<>>
    /\ start = [srcData |-> srcData, dstState |-> dstState, dstData |-> dstData,
                clock |-> clock]
    /\ hashEndClock = NoStatus
    /\ fnIn = NoStatus
    /\ fnOut = NoStatus

----------------------------------------------------------------------------
(* main (src/main.rs:78-118) and md5_of_file (src/main.rs:29-45).           *)

\* exit(code), or the status of a panic or of falling off the end of main
Exit(code) ==
    /\ pc' = "exit"
    /\ exitStatus' = code

hashVars == <<pos, buffer, context, fed, reads, md5, hashEndClock>>
fsVars == <<srcKind, srcData, dstState, dstData>>
envVars == <<clock, ticks, extAt, start, args, fnIn, fnOut>>

\* A plausible slip: the operand is opened before the operands are counted.
ParseArgsAfterOpen ==
    /\ pc = "main"
    /\ IF \E i \in 1..Len(args) : ~ValidUnicode(args[i])
       THEN Exit(101) /\ sys' = sys
       ELSE IF Len(args) # 1
       THEN Exit(1) /\ sys' = (IF Len(args) > 0 THEN Append(sys, "open_src") ELSE sys)
       ELSE pc' = "open" /\ exitStatus' = exitStatus /\ sys' = sys
    /\ UNCHANGED <<hashVars, fsVars, envVars, ts, destination, reported>>

\* src/main.rs:79-86.  env::args() panics on an operand that is not valid Unicode
\* (exit status 101); any count of operands but one prints the usage and exits 1.
ParseArgs ==
    /\ pc = "main"
    /\ IF \E i \in 1..Len(args) : ~ValidUnicode(args[i])
       THEN Exit(101)
       ELSE IF Len(args) # 1
       THEN Exit(1)
       ELSE pc' = "open" /\ exitStatus' = exitStatus
    /\ UNCHANGED <<hashVars, fsVars, envVars, ts, destination, reported, sys>>

\* src/main.rs:30-33, and 89-95 on Err.  Opening a directory read-only succeeds on
\* Unix and fails elsewhere; opening a file can fail (permissions).
HashOpen ==
    /\ pc = "open"
    /\ sys' = Append(sys, "open_src")
    /\ \E opened \in BOOLEAN :
          /\ srcKind = "absent" => ~opened
          /\ IF opened
             THEN /\ pc' = "read"
                  /\ exitStatus' = exitStatus
                  /\ pos' = 0
                  /\ buffer' = [i \in 1..BufSize |-> 0]
                  /\ context' = ContextNew
             ELSE /\ Exit(2)
                  /\ UNCHANGED <<pos, buffer, context>>
    /\ UNCHANGED <<fed, reads, md5, hashEndClock, fsVars, envVars, ts, destination,
                   reported>>

\* the bytes a read of at most n bytes at offset pos delivers
FileRead(n) == SubSeq(srcData, pos + 1, pos + n)

\* bytes left between the read offset and the end of the file
Available == IF Len(srcData) > pos THEN Len(srcData) - pos ELSE 0

\* src/main.rs:35-44, and 89-95 on Err: one turn of the loop.  A read delivers
\* between 1 and BufSize of the bytes left, 0 at the end of the file, or fails;
\* reading a directory always fails.
HashRead ==
    /\ pc = "read"
    /\ sys' = Append(sys, "read")
    /\ \E failed \in BOOLEAN, bytes_read \in 0..BufSize :
          /\ srcKind = "dir" => failed
          /\ bytes_read <= Available
          /\ bytes_read = 0 <=> Available = 0
          /\ IF failed
             THEN /\ Exit(2)
                  /\ UNCHANGED hashVars
             ELSE /\ reads' = Append(reads, bytes_read)
                  /\ IF bytes_read = 0
                     THEN /\ md5' = LowerHex(compute(context))
                          /\ hashEndClock' = clock
                          /\ pc' = "timestamp"
                          /\ exitStatus' = exitStatus
                          /\ UNCHANGED <<pos, buffer, context, fed>>
                     ELSE /\ buffer' = [i \in 1..BufSize |->
                                          IF i <= bytes_read THEN FileRead(bytes_read)[i]
                                          ELSE buffer[i]]
                          /\ context' = consume(context, Chunk(buffer', bytes_read))
                          /\ fed' = fed \o Chunk(buffer', bytes_read)
                          /\ pos' = pos + bytes_read
                          /\ UNCHANGED <<md5, hashEndClock, pc, exitStatus>>
    /\ UNCHANGED <<fsVars, envVars, ts, destination, reported>>

\* src/main.rs:98
Timestamp ==
    /\ pc = "timestamp"
    /\ ts' = timestamp
    /\ pc' = "new_name"
    /\ UNCHANGED <<exitStatus, hashVars, fsVars, envVars, destination, reported, sys>>

\* src/main.rs:101-108: new_name, whose is_file reads the operand's metadata
BuildName ==
    /\ pc = "new_name"
    /\ sys' = Append(sys, "stat")
    /\ LET r == new_name(args[1], srcKind = "file", ts, md5) IN
          IF r.ok
          THEN /\ destination' = r.val
               /\ pc' = "copy"
               /\ exitStatus' = exitStatus
          ELSE /\ Exit(3)
               /\ UNCHANGED destination
    /\ UNCHANGED <<hashVars, fsVars, envVars, ts, reported>>

\* The destination name resolves to the file the operand resolves to: it is a
\* link to it, or the two paths are the same entry of the working directory.
SameFile ==
    \/ dstState = "link"
    \/ InCwd(args[1]) /\ destination = file_name(args[1])

\* A plausible slip: the bytes that were hashed are written, the source is not read again.
CopyInputHashed == fed

\* the bytes std::fs::copy reads from the operand path (src/main.rs:109): the
\* source is read a second time
CopyInput == srcData

\* src/main.rs:109-117.  std::fs::copy opens the source, opens the destination
\* with create and truncate, and transfers the bytes; each step can fail.  When
\* the destination resolves to the source's own file, the truncation empties it.
Copy ==
    /\ pc = "copy"
    /\ \E outcome \in {"src_err", "dst_err", "io_err", "ok"} :
          /\ dstState = "dir" => outcome \in {"src_err", "dst_err"}
          /\ CASE outcome = "src_err" ->
                    /\ sys' = Append(sys, "open_src")
                    /\ Exit(4)
                    /\ UNCHANGED <<fsVars, reported>>
               [] outcome = "dst_err" ->
                    /\ sys' = sys \o <<"open_src", "open_dst">>
                    /\ Exit(4)
                    /\ UNCHANGED <<fsVars, reported>>
               [] outcome = "io_err" ->
                    /\ sys' = sys \o <<"open_src", "open_dst", "truncate", "write">>
                    /\ Exit(4)
                    /\ UNCHANGED <<srcKind, reported>>
                    /\ IF SameFile
                       THEN srcData' = <<>> /\ UNCHANGED <<dstState, dstData>>
                       ELSE /\ dstState' = "file"
                            /\ \E k \in 0..Len(CopyInput) :
                                  /\ k < Len(CopyInput) \/ k = 0
                                  /\ dstData' = SubSeq(CopyInput, 1, k)
                            /\ UNCHANGED srcData
               [] outcome = "ok" ->
                    /\ sys' = sys \o <<"open_src", "open_dst", "truncate", "write">>
                    /\ Exit(0)
                    /\ UNCHANGED srcKind
                    /\ IF SameFile
                       THEN /\ srcData' = <<>>
                            /\ reported' = <<0>>
                            /\ UNCHANGED <<dstState, dstData>>
                       ELSE /\ dstState' = "file"
                            /\ dstData' = CopyInput
                            /\ reported' = <<Len(CopyInput)>>
                            /\ UNCHANGED srcData
    /\ UNCHANGED <<hashVars, envVars, ts, destination>>

----------------------------------------------------------------------------
(* The environment: the clock, and another process writing the source.      *)

\* The clock advances; main reads it last when the name is built.
Tick ==
    /\ pc \in {"main", "open", "read", "timestamp", "new_name"}
    /\ ticks < MaxTicks
    /\ clock' = clock + 1
    /\ ticks' = ticks + 1
    /\ UNCHANGED <<args, pc, exitStatus, fsVars, hashVars, ts, destination, reported,
                   sys, extAt, start, fnIn, fnOut>>

ExternalWrite ==
    /\ pc \in {"read", "timestamp", "new_name", "copy"}
    /\ srcKind = "file"
    /\ Len(extAt) < MaxExtMods
    /\ \E new \in Rewrites \ {srcData} : srcData' = new
    /\ extAt' = Append(extAt, IF pc = "read" THEN "hashing" ELSE "hashed")
    /\ UNCHANGED <<args, pc, exitStatus, srcKind, dstState, dstData, hashVars, clock,
                   ticks, ts, destination, reported, sys, start, fnIn, fnOut>>

Next ==
    \/ ParseArgs
    \/ HashOpen
    \/ HashRead
    \/ Timestamp
    \/ BuildName
    \/ Copy
    \/ Tick
    \/ ExternalWrite

Spec == Init /\ [][Next]_vars

----------------------------------------------------------------------------
(* new_name called directly, on any path and any strings.                   *)

Stamps == {<<"T">>, FormatTime(59)}
Hashes == {<<"H">>, Fingerprint(<<>>)}

InitNewName ==
    /\ fnIn \in {r \in [fname : SeqsUpTo(PathBytes, MaxNameLen) \ {<<>>},
                        isFile : BOOLEAN, ts : Stamps, md5 : Hashes] :
                    r.isFile => CanNameFile(r.fname)}
    /\ fnOut = NoStatus
    /\ pc = "call"
    /\ args = <<>>
    /\ exitStatus = NoStatus
    /\ srcKind = "absent"
    /\ srcData = <<>>
    /\ dstState = "absent"
    /\ dstData = <<>>
    /\ pos = 0
    /\ buffer = [i \in 1..BufSize |-> 0]
    /\ context = ContextNew
    /\ fed = <<>>
    /\ reads = <<>>
    /\ md5 = <<>>
    /\ clock = 0
    /\ ticks = 0
    /\ ts = <<>>
    /\ destination = <<>>
    /\ reported = <<>>
    /\ sys = <<>>
    /\ extAt = <<>>
    /\ start = [srcData |-> <<>>, dstState |-> "absent", dstData |-> <<>>, clock |-> 0]
    /\ hashEndClock = NoStatus

CallNewName ==
    /\ pc = "call"
    /\ fnOut' = new_name(fnIn.fname, fnIn.isFile, fnIn.ts, fnIn.md5)
    /\ pc' = "returned"
    /\ UNCHANGED <<args, exitStatus, fsVars, hashVars, clock, ticks, ts, destination,
                   reported, sys, extAt, start, fnIn>>

NextNewName == CallNewName

SpecNewName == InitNewName /\ [][NextNewName]_vars

----------------------------------------------------------------------------
(* Properties.                                                              *)

Exited == pc = "exit"
OneValidOperand == Len(args) = 1 /\ ValidUnicode(args[1])
Wrote == \E i \in 1..Len(sys) : sys[i] \in {"open_dst", "truncate", "write"}
NoWriteWhileHashing == \A i \in 1..Len(extAt) : extAt[i] # "hashing"
\* the bytes of the file the destination name resolves to
DestBytes == IF dstState = "link" THEN srcData ELSE dstData

\* C1: every invocation ends with status 1 (operand count not one), 2 (hashing
\* failed), 3 (naming failed), 4 (copy failed) or 0 (all stages succeeded), the
\* status of the first stage that failed, and no later stage ran.
Claimed_C1 ==
    Exited =>
       /\ exitStatus \in {0, 1, 2, 3, 4}
       /\ exitStatus = 1 <=> Len(args) # 1
       /\ exitStatus = 1 => sys = <<>>
       /\ exitStatus = 2 => md5 = <<>> /\ ts = <<>> /\ destination = <<>> /\ ~Wrote
       /\ exitStatus = 3 => md5 # <<>> /\ ts # <<>> /\ destination = <<>> /\ ~Wrote
       /\ exitStatus = 4 => destination # <<>> /\ reported = <<>>
       /\ exitStatus = 0 => destination # <<>> /\ reported # <<>>

\* C2: an invocation with one operand that is a directory or does not exist ends
\* with the naming error, status 3, and attempts no copy.  (Stated for operands
\* that are valid Unicode.)
Claimed_C2 ==
    (Exited /\ OneValidOperand /\ srcKind \in {"absent", "dir"}) =>
       exitStatus = 3 /\ ~Wrote

\* C3: an invocation that ends with status 1, 2 or 3 has created, truncated and
\* written no file, and left every file as it was; one that ends with status 1
\* has opened no file and read no metadata.
Thm_C3 ==
    (Exited /\ exitStatus \in {1, 2, 3}) =>
       /\ ~Wrote
       /\ dstState = start.dstState
       /\ dstData = start.dstData
       /\ extAt = <<>> => srcData = start.srcData
       /\ exitStatus = 1 => sys = <<>>

Witness_C3 ==
    /\ Exited
    /\ exitStatus = 3
    /\ start.dstState = "file"
    /\ sys[Len(sys)] = "stat"

\* C4: whatever the outcome, the source still holds the bytes it had before the
\* invocation (no other process having written it), and the process writes no
\* file but the one at the destination name.
Claimed_C4 ==
    extAt = <<>> => srcData = start.srcData

\* C5: for a path to a regular file, new_name returns stem.T.H.extension, or
\* stem.T.H when the file name has no extension, with the file name split at its
\* final dot (a leading dot splits nothing) and stem and extension unchanged.
ClaimedName(name, t, h) ==
    LET d == LastIndexOf(name, ".") IN
    IF d > 1
    THEN SubSeq(name, 1, d - 1) \o <<".">> \o t \o <<".">> \o h \o <<".">>
            \o SubSeq(name, d + 1, Len(name))
    ELSE name \o <<".">> \o t \o <<".">> \o h

Claimed_C6 ==
    (Exited /\ exitStatus = 0 /\ extAt = <<>>) =>
       /\ DestBytes = start.srcData
       /\ md5 = Fingerprint(DestBytes)
       /\ reported = <<Len(start.srcData)>>

\* the timestamp segment of the destination name
StampOf(dest) ==
    LET stem == to_string_lossy(file_stem(file_name(args[1]))) IN
    SubSeq(dest, Len(stem) + 2, Len(stem) + 1 + Len(ts))

\* C7 as claimed: the timestamp in the destination name is the clock reading at
\* process start, whatever the clock does during hashing.
Claimed_C7 ==
    destination # <<>> => StampOf(destination) = FormatTime(start.clock)

\* C7 as amended: the timestamp in the destination name is a clock reading taken
\* after hashing has finished and before the name is built.
Thm_C7 ==
    /\ ts # <<>> => \E c \in hashEndClock..clock : ts = FormatTime(c)
    /\ destination # <<>> => StampOf(destination) = ts

Witness_C7 ==
    /\ destination # <<>>
    /\ StampOf(destination) # FormatTime(start.clock)
    /\ hashEndClock > start.clock

\* C8: when another process rewrites the source after hashing and before the copy
\* (and the destination is no link to the source), the copy still succeeds with
\* status 0: the name carries the digest of the bytes hashed, the destination
\* holds the rewritten bytes, and their length is reported as usual.
Thm_C8 ==
    (Exited /\ extAt # <<>> /\ NoWriteWhileHashing /\ Wrote /\ dstState # "link") =>
       /\ md5 = Fingerprint(start.srcData)
       /\ exitStatus \in {0, 4}
       /\ exitStatus = 0 => /\ dstData = srcData
                            /\ reported = <<Len(srcData)>>

Witness_C8 ==
    /\ Exited
    /\ exitStatus = 0
    /\ extAt # <<>>
    /\ NoWriteWhileHashing
    /\ Fingerprint(DestBytes) # md5

RECURSIVE Sum(_)
Sum(s) == IF s = <<>> THEN 0 ELSE Head(s) + Sum(Tail(s))

\* C9: however the reads split the content into chunks of 1..BufSize bytes,
\* md5_of_file feeds every byte to the digest once and in file order, stops at the
\* first read of zero bytes, and returns the fingerprint of the content hashed in
\* one piece; when a read fails it returns no fingerprint.
Thm_C9 ==
    /\ context = consume(ContextNew, fed)
    /\ NoWriteWhileHashing => fed = SubSeq(start.srcData, 1, pos)
    /\ Sum(reads) = pos
    /\ \A i \in 1..Len(reads) :
          /\ reads[i] \in 0..BufSize
          /\ reads[i] = 0 => i = Len(reads) /\ pc # "read" /\ md5 # <<>>
    /\ md5 # <<>> =>
          /\ reads # <<>> /\ reads[Len(reads)] = 0
          /\ md5 = LowerHex(compute(consume(ContextNew, fed)))
          /\ NoWriteWhileHashing =>
                fed = start.srcData /\ md5 = Fingerprint(start.srcData)
    /\ (Exited /\ exitStatus = 2) => md5 = <<>>

Witness_C9 ==
    /\ md5 # <<>>
    /\ Len(reads) >= 3
    /\ reads[1] < BufSize
    /\ NoWriteWhileHashing

\* C10: the destination name is strictly longer than the source's file name,
\* holds no directory separator, and so the copy never opens the source's own
\* file as its destination.
Claimed_C10 ==
    /\ destination # <<>> =>
          /\ Len(destination) > Len(file_name(args[1]))
          /\ ~Contains(destination, "/")
    /\ (Exited /\ Wrote) => ~SameFile

====
